---- MODULE Spec2Model ----
(***************************************************************************)
(* La Marzocco and Tedee integrations: config-entry lifecycle, coordinator *)
(* polls, re-authentication flows and the Tedee webhook handler.           *)
(*                                                                         *)
(* Every action is one handler run to completion.  Besides the program     *)
(* state, four variables describe what the last handler did: ev (which     *)
(* operation, on which entry, with which result), poll (the vendor calls   *)
(* of the coordinator poll it ran), http (the webhook request it served    *)
(* and the reply) and res (the result of a flow step, a migration, a       *)
(* service call or an entity call).                                        *)
(***************************************************************************)
EXTENDS Integers, Sequences, FiniteSets

\* ---------------------------------------------------------------- bounds
MaxTicks == 2
MaxLocks == 2
MaxCallbacks == 1
NumKeys == 2
MaxKey == 2
MaxEnabledDays == 2

\* ------------------------------------------------------ program constants
FIRMWARE_UPDATE_INTERVAL == 3600
STATISTICS_UPDATE_INTERVAL == 300
FULL_UPDATE_INTERVAL_SECONDS == 3600
HTTP_OK == 200
HTTP_BAD_REQUEST == 400
HTTP_UNAUTHORIZED == 401

LM == "lamarzocco"
TEDEE == "tedee"
Domains == {LM, TEDEE}

LockIds == 1 .. MaxLocks
Keys == 1 .. NumKeys
TickSteps == {1, STATISTICS_UPDATE_INTERVAL, FIRMWARE_UPDATE_INTERVAL}

VARIABLES
    now,        \* time.time()
    ticks,      \* how often the clock has advanced
    state,      \* ConfigEntry.state of each integration's entry
    hass_data,  \* whether hass.data[DOMAIN] holds the entry's coordinator
    flows,      \* the config flows in progress
    lm,         \* LaMarzoccoUpdateCoordinator: the two timestamps
    td,         \* TedeeApiCoordinator and its client's locks_dict
    task,       \* the tedee_register_webhook background task: none, pending,
                \* registered (the bridge accepted), refused (it did not), failed
    hook,       \* the host's handler for the entry's webhook id: its api_key
    listener,   \* the EVENT_HOMEASSISTANT_STOP listener is installed
    deleted,    \* calls of the vendor client's delete_webhooks
    stopped,    \* the host has fired its stop event
    entry,      \* the La Marzocco ConfigEntry: version, unique_id, title, data
    uflow,      \* the La Marzocco config flow the user started: LmConfigFlow
    tentry,     \* the Tedee ConfigEntry: unique_id, title, data
    tflow,      \* the Tedee config flow in progress: TedeeConfigFlow
    update_in_progress, \* _update_in_progress of each La Marzocco update entity
    ev,         \* the last operation
    poll,       \* the coordinator poll the last operation ran
    http,       \* the webhook request the last operation served
    res         \* what the last flow step, migration, service call or entity
                \* call returned or raised

vars == <<now, ticks, state, hass_data, flows, lm, td, task, hook, listener,
          deleted, stopped, entry, uflow, tentry, tflow, update_in_progress,
          ev, poll, http, res>>

\* ------------------------------------------------------------ trace values
NoData == "no data"
NoPoll == [ran |-> FALSE, first |-> FALSE, calls |-> <<>>, outs |-> <<>>, raised |-> "none",
           returned |-> NoData, notified |-> {}]
NoHttp == [served |-> FALSE]
NoRes == [op |-> "none"]
Event(op, dom, ok) == [op |-> op, dom |-> dom, ok |-> ok]

Count(s, x) == Cardinality({i \in DOMAIN s : s[i] = x})

\* A dict (ConfigEntry.data, a form's input) is the set of its (key, value) pairs.
Has(d, k) == \E p \in d : p[1] = k
Get(d, k) == (CHOOSE p \in d : p[1] = k)[2]
\* {**a, **b}
Merge(a, b) == {p \in a : ~Has(b, p[1])} \cup b

\* ================================================================ host
\* ConfigEntry.async_start_reauth: one reauth flow per entry at most; the new
\* flow is at the step the integration's async_step_reauth shows.
async_start_reauth(fl, dom, step) ==
    IF \E f \in fl : f.entry = dom /\ f.source = "reauth"
    THEN fl
    ELSE fl \cup {[handler |-> dom, source |-> "reauth", entry |-> dom, step |-> step]}

\* DataUpdateCoordinator.async_config_entry_first_refresh and ConfigEntry.async_setup:
\* the entry state a first refresh that raised `raised` ends in ("" when it succeeded
\* and the setup goes on).
FirstRefreshState(raised) ==
    CASE raised = "none" -> ""
      [] raised = "ConfigEntryAuthFailed" -> "SETUP_ERROR"
      [] OTHER -> "SETUP_RETRY"

\* ConfigEntry.async_unload: what the entry state becomes; the integration's
\* async_unload_entry is only called for a LOADED entry.
UnloadState(st, unload_ok) ==
    CASE st = "LOADED" -> IF unload_ok THEN "NOT_LOADED" ELSE "FAILED_UNLOAD"
      [] st \in {"SETUP_ERROR", "SETUP_RETRY"} -> "NOT_LOADED"
      [] OTHER -> st

\* ========================================================= La Marzocco
\* update.py, ENTITIES: the keys of the update entities; __init__ of each sets
\* _update_in_progress to False, and an entry that is not loaded has no entities.
UpdateKeys == {"machine_firmware", "gateway_firmware"}
NoUpdates == [k \in UpdateKeys |-> FALSE]

LMOutcomes == {"ok", "AuthFail", "RequestNotSuccessful"}
Passwords == {"pw", "new_pw"}

\* coordinator.py, _async_handle_request: the exception a vendor call's outcome
\* is re-raised as.
LM_handle_swallow(o) ==
    IF o = "AuthFail" THEN "ConfigEntryAuthFailed" ELSE "none"

LM_async_handle_request(o) ==
    CASE o = "AuthFail" -> "ConfigEntryAuthFailed"
      [] o = "RequestNotSuccessful" -> "UpdateFailed"
      [] OTHER -> "none"

\* `last is None or last + interval < time()`
LMDue_inclusive(last, interval, t) == last = {} \/ \E x \in last : x + interval <= t

LMDue(last, interval, t) == last = {} \/ \E x \in last : x + interval < t

LMFresh == [fw |-> {}, stats |-> {}]

\* The outcomes of the vendor calls of one poll: those after a failed call are
\* never drawn, and are listed as "ok".
LMUsed(oc, of, os) ==
    (oc # "ok" => of = "ok" /\ os = "ok") /\ (of # "ok" => os = "ok")


\* One more awaited request of a poll: nothing once an earlier one has raised.
LMStep(p, name, o) ==
    IF p.raised # "none" THEN p
    ELSE [p EXCEPT !.calls = Append(@, name), !.outs = Append(@, o),
                   !.raised = LM_async_handle_request(o)]

\* coordinator.py, _async_update_data: the coordinator and the poll's trace.
LM_async_update_data(c, t, oc, of, os) ==
    LET p0 == [NoPoll EXCEPT !.ran = TRUE]
        p1 == LMStep(p0, "get_config", oc)
        fwdue == p1.raised = "none" /\ LMDue(c.fw, FIRMWARE_UPDATE_INTERVAL, t)
        p2 == IF fwdue THEN LMStep(p1, "get_firmware", of) ELSE p1
        c2 == IF fwdue /\ p2.raised = "none" THEN [c EXCEPT !.fw = {t}] ELSE c
        stdue == p2.raised = "none" /\ LMDue(c2.stats, STATISTICS_UPDATE_INTERVAL, t)
        p3 == IF stdue THEN LMStep(p2, "get_statistics", os) ELSE p2
        c3 == IF stdue /\ p3.raised = "none" THEN [c2 EXCEPT !.stats = {t}] ELSE c2
    IN [c |-> c3, p |-> p3]

\* config_flow.py, async_step_reauth: the form the new flow shows.
LM_reauth_step_user == "user"

LM_async_step_reauth == "reauth_confirm"

\* __init__.py, async_setup_entry whether hass.data gets the coordinator, given
\* what the first refresh raised.
LM_stores(raised) == raised = "none"

\* __init__.py:43-62: with a Bluetooth adapter and a discovered device named
\* after the entry's unique id (`bt`), the device's address is stored as the
\* entry's mac before anything else.
BT_ADDRESS == "bt:ad:dr:es:s0:00"
with_bluetooth_mac(data, bt) ==
    IF bt THEN Merge(data, {<<"mac", BT_ADDRESS>>}) ELSE data

\* __init__.py, async_setup_entry under the host's async_setup: the Bluetooth
\* discovery, a new coordinator, its first refresh, and only then hass.data and
\* the platforms.
LMSetupOutcome(t, fl, oc, of, os, e, bt) ==
    LET r == LM_async_update_data(LMFresh, t, oc, of, os)
        st == FirstRefreshState(r.p.raised)
    IN [state |-> IF st = "" THEN "LOADED" ELSE st,
        entry |-> [e EXCEPT !.data = with_bluetooth_mac(@, bt)],
        data |-> LM_stores(r.p.raised),
        c |-> r.c,
        p |-> [r.p EXCEPT !.first = TRUE],
        flows |-> IF st = "SETUP_ERROR"
                  THEN async_start_reauth(fl, LM, LM_async_step_reauth)
                  ELSE fl]

LM_async_setup_entry ==
    /\ ~stopped
    /\ entry.exists /\ entry.version = 2
    /\ state[LM] \in {"NOT_LOADED", "SETUP_RETRY"}
    /\ \E oc \in LMOutcomes, of \in LMOutcomes, os \in LMOutcomes, bt \in BOOLEAN :
         /\ LMUsed(oc, of, os)
         /\ LET s == LMSetupOutcome(now, flows, oc, of, os, entry, bt)
            IN
            /\ state' = [state EXCEPT ![LM] = s.state]
            /\ hass_data' = [hass_data EXCEPT ![LM] = @ \/ s.data]
            /\ lm' = IF s.state = "LOADED" THEN s.c ELSE LMFresh
            /\ flows' = s.flows
            /\ entry' = s.entry
            /\ poll' = s.p
            /\ ev' = Event("setup", LM, s.state = "LOADED")
    /\ update_in_progress' = NoUpdates
    /\ http' = NoHttp
    /\ res' = NoRes
    /\ UNCHANGED <<tentry, tflow, uflow, now, ticks, td, task, hook, listener, deleted, stopped>>

\* __init__.py, async_unload_entry: the coordinator is popped when the platforms
\* unloaded.
LM_keeps(unload_ok) == ~unload_ok

LM_async_unload_entry ==
    /\ ~stopped
    /\ state[LM] \in {"LOADED", "SETUP_ERROR", "SETUP_RETRY"}
    /\ \E unload_ok \in BOOLEAN :
         /\ state[LM] = "LOADED" \/ unload_ok
         /\ state' = [state EXCEPT ![LM] = UnloadState(state[LM], unload_ok)]
         /\ hass_data' = [hass_data EXCEPT ![LM] =
                IF state[LM] = "LOADED" THEN LM_keeps(unload_ok) ELSE @]
         /\ lm' = IF state[LM] = "LOADED" /\ unload_ok THEN LMFresh ELSE lm
         /\ ev' = IF state[LM] = "LOADED" THEN Event("unload", LM, unload_ok)
                  ELSE Event("cancel", LM, TRUE)
    /\ poll' = NoPoll
    /\ http' = NoHttp
    /\ res' = NoRes
    /\ update_in_progress' = NoUpdates
    /\ UNCHANGED <<tentry, tflow, entry, uflow, now, ticks, flows, td, task, hook, listener, deleted, stopped>>

\* The coordinator's scheduled or requested refresh of a loaded entry; an
\* authentication failure starts the reauth flow.
LM_poll ==
    /\ ~stopped
    /\ state[LM] = "LOADED"
    /\ \E oc \in LMOutcomes, of \in LMOutcomes, os \in LMOutcomes :
         LET r == LM_async_update_data(lm, now, oc, of, os) IN
         /\ LMUsed(oc, of, os)
         /\ lm' = r.c
         /\ poll' = r.p
         /\ flows' = IF r.p.raised = "ConfigEntryAuthFailed"
                     THEN async_start_reauth(flows, LM, LM_async_step_reauth)
                     ELSE flows
         /\ ev' = Event("poll", LM, r.p.raised = "none")
    /\ http' = NoHttp
    /\ res' = NoRes
    /\ UNCHANGED <<tentry, tflow, update_in_progress, entry, uflow, now, ticks, state, hass_data, td, task, hook, listener, deleted, stopped>>

\* config_flow.py, async_step_user: the error the fleet request's outcome gives
\* ("" when there is none).
LM_fleet_error_swapped(fleet) ==
    CASE fleet = "AuthFail" -> "cannot_connect"
      [] fleet = "RequestNotSuccessful" -> "invalid_auth"
      [] fleet = "empty" -> "no_machines"
      [] OTHER -> ""

LM_fleet_error(fleet) ==
    CASE fleet = "AuthFail" -> "invalid_auth"
      [] fleet = "RequestNotSuccessful" -> "cannot_connect"
      [] fleet = "empty" -> "no_machines"
      [] OTHER -> ""

FleetOutcomes == {"ok", "empty", "AuthFail", "RequestNotSuccessful"}

reauth_data_input_only(data, user_input) == user_input

\* config_flow.py, async_step_user of a reauth flow: {**reauth_entry.data, **user_input}.
reauth_data(data, user_input) == Merge(data, user_input)

\* config_flow.py, async_step_reauth_confirm and, with a password entered,
\* async_step_user of a reauth flow: on an error the user form is shown; with
\* none the entry gets the password entered and is reloaded (the host's async_reload: unload, then
\* setup, this flow still in progress) and the flow aborts.
LM_reauth_submit ==
    /\ ~stopped
    /\ \E f \in flows, has_input \in BOOLEAN, fleet \in FleetOutcomes,
          unload_ok \in BOOLEAN, password \in Passwords, bt \in BOOLEAN,
          oc \in LMOutcomes, of \in LMOutcomes, os \in LMOutcomes :
         /\ f.handler = LM /\ f.source = "reauth"
         /\ LMUsed(oc, of, os)
         /\ has_input \/ fleet = "ok"
         /\ (has_input /\ LM_fleet_error(fleet) = "")
              \/ (unload_ok /\ oc = "ok" /\ of = "ok" /\ os = "ok" /\ password = "pw" /\ ~bt)
         /\ unload_ok \/ (oc = "ok" /\ of = "ok" /\ os = "ok" /\ ~bt) \/ state[LM] # "LOADED"
         /\ LET err == LM_fleet_error(fleet)
                st1 == UnloadState(state[LM], unload_ok)
                d1 == IF state[LM] = "LOADED" THEN LM_keeps(unload_ok) ELSE hass_data[LM]
                updated == [entry EXCEPT !.data = reauth_data(@, {<<"password", password>>})]
                s == LMSetupOutcome(now, flows, oc, of, os, updated, bt)
                r(result, calls, data) ==
                    [op |-> "reauth", has_input |-> has_input, password |-> password,
                     fleet |-> fleet, error |-> err, result |-> result, calls |-> calls,
                     data |-> data]
                shown(step) == r(step, <<>>, {})
                aborted == r("abort:reauth_successful",
                             <<"async_update_entry", "async_reload">>, updated.data)
            IN
            IF ~has_input
            THEN /\ ev' = Event("reauth_form", LM, TRUE)
                 /\ poll' = NoPoll
                 /\ res' = shown("form:reauth_confirm")
                 /\ UNCHANGED <<state, hass_data, flows, lm, entry, update_in_progress>>
            ELSE IF err # ""
            THEN /\ flows' = (flows \ {f}) \cup {[f EXCEPT !.step = "user"]}
                 /\ ev' = Event("reauth_submit", LM, FALSE)
                 /\ poll' = NoPoll
                 /\ res' = shown("form:user")
                 /\ UNCHANGED <<state, hass_data, lm, entry, update_in_progress>>
            ELSE IF st1 = "NOT_LOADED"
            THEN /\ state' = [state EXCEPT ![LM] = s.state]
                 /\ hass_data' = [hass_data EXCEPT ![LM] = @ \/ s.data]
                 /\ lm' = IF s.state = "LOADED" THEN s.c ELSE LMFresh
                 /\ poll' = s.p
                 /\ flows' = s.flows \ {f}
                 /\ entry' = s.entry
                 /\ update_in_progress' = NoUpdates
                 /\ ev' = Event("reauth_submit", LM, TRUE)
                 /\ res' = aborted
            ELSE /\ state' = [state EXCEPT ![LM] = st1]
                 /\ hass_data' = [hass_data EXCEPT ![LM] = d1]
                 /\ flows' = flows \ {f}
                 /\ poll' = NoPoll
                 /\ entry' = updated
                 /\ update_in_progress' = NoUpdates
                 /\ ev' = Event("reauth_submit", LM, TRUE)
                 /\ res' = aborted
                 /\ UNCHANGED lm
    /\ http' = NoHttp
    /\ UNCHANGED <<tentry, tflow, uflow, now, ticks, td, task, hook, listener, deleted, stopped>>

\* ============================== La Marzocco: the config entry and its data
CONF_MACHINE == "machine"

Models == {"GS3_AV", "GS3_MP", "LINEA_MINI", "LINEA_MICRA"}
\* Serial numbers of the account's machines.
Serials == {"GS01234", "MR01234"}

\* LaMarzoccoDeviceInfo of the machine with serial number s.
DeviceInfo(s) ==
    CASE s = "GS01234" -> [serial_number |-> s, model |-> "GS3_AV", name |-> "GS3",
                           communication_key |-> "token_gs"]
      [] s = "MR01234" -> [serial_number |-> s, model |-> "LINEA_MICRA", name |-> "Micra",
                           communication_key |-> "token_mr"]
      [] OTHER -> [serial_number |-> s, model |-> "LINEA_MINI", name |-> "Mini",
                   communication_key |-> "token_lm"]

\* What LaMarzoccoCloudClient.get_customer_fleet gives: the dict of the account's
\* machines by serial number, or the exception it raises.
FleetResults ==
    {[raised |-> "none", fleet |-> S] : S \in SUBSET Serials}
      \cup {[raised |-> x, fleet |-> {}] : x \in {"AuthFail", "RequestNotSuccessful"}}

NoEntry == [exists |-> FALSE, version |-> 0, unique_id |-> "", title |-> "", data |-> {}]
Entry(version, unique_id, title, data) ==
    [exists |-> TRUE, version |-> version, unique_id |-> unique_id, title |-> title,
     data |-> data]

USER_INPUT(password) == {<<"username", "user">>, <<"password", password>>}

\* A version-2 entry of the machine with serial number s, as the config flow is
\* meant to make it.
EntryOf(s, model) ==
    Entry(2, s, "My LaMarzocco",
          USER_INPUT("pw") \cup {<<"model", model>>, <<"host", "host">>,
                                 <<"token", DeviceInfo(s).communication_key>>,
                                 <<"name", DeviceInfo(s).name>>})

DefaultEntry == EntryOf("GS01234", "GS3_AV")

\* The version-1 entries: the credentials, the machine's serial number and,
\* optionally, host and mac.
V1Entries ==
    {Entry(1, s, "My LaMarzocco",
           USER_INPUT("pw") \cup {<<CONF_MACHINE, s>>} \cup h \cup m) :
       s \in Serials,
       h \in {{}, {<<"host", "host">>}},
       m \in {{}, {<<"mac", "aa:bb:cc:dd:ee:ff">>}}}

\* ConfigEntries.async_setup of an entry whose version is not the flow's: the
\* state a migration that returned `returned` or raised leaves the entry in
\* ("" when the setup goes on).
MigrationState(returned, raised) ==
    IF returned /\ raised = "none" THEN "" ELSE "MIGRATION_ERROR"

\* __init__.py:105-117, the version-2 data: credentials from the old data, model,
\* name and token from the fleet's device, host and mac when the old data has them.
v2_data_keep_all(data, device) ==
    Merge(data, {<<"model", device.model>>, <<"name", device.name>>,
                 <<"token", device.communication_key>>})

v2_data(data, device) ==
    {<<"username", Get(data, "username")>>, <<"password", Get(data, "password")>>,
     <<"model", device.model>>, <<"name", device.name>>,
     <<"token", device.communication_key>>}
      \cup {p \in data : p[1] \in {"host", "mac"}}

\* __init__.py:97-101, what migration returns when the fleet request raised.
migration_ignores_error(raised) == TRUE

migration_fleet_failed(raised) == raised \notin {"AuthFail", "RequestNotSuccessful"}

\* __init__.py, async_migrate_entry of entry e, r being the fleet request's result.
LM_migrate(e, r) ==
    IF e.version # 1
    THEN [entry |-> e, returned |-> TRUE, raised |-> "none", fleet_calls |-> 0]
    ELSE IF r.raised # "none"
    THEN [entry |-> e, returned |-> migration_fleet_failed(r.raised), raised |-> "none",
          fleet_calls |-> 1]
    ELSE IF e.unique_id \notin r.fleet
    THEN [entry |-> e, returned |-> FALSE, raised |-> "KeyError", fleet_calls |-> 1]
    ELSE [entry |-> [e EXCEPT !.version = 2,
                              !.data = v2_data(e.data, DeviceInfo(e.unique_id))],
          returned |-> TRUE, raised |-> "none", fleet_calls |-> 1]

\* The host migrates a version-1 entry before it sets it up.
LM_async_migrate_entry ==
    /\ ~stopped
    /\ entry.exists /\ entry.version = 1
    /\ state[LM] = "NOT_LOADED"
    /\ \E r \in FleetResults :
         LET m == LM_migrate(entry, r)
             st == MigrationState(m.returned, m.raised)
         IN
         /\ entry' = m.entry
         /\ state' = [state EXCEPT ![LM] = IF st = "" THEN @ ELSE st]
         /\ res' = [op |-> "migrate", old |-> entry, fleet |-> r, returned |-> m.returned,
                    raised |-> m.raised, fleet_calls |-> m.fleet_calls]
         /\ ev' = Event("migrate", LM, st = "")
    /\ poll' = NoPoll
    /\ http' = NoHttp
    /\ UNCHANGED <<tentry, tflow, update_in_progress, now, ticks, hass_data, flows, lm, td, task, hook, listener, deleted,
                   stopped, uflow>>

\* ================================ La Marzocco: the config flow of a user
\* LmConfigFlow of a flow with source user: the host's current step of it, and
\* the object's _fleet (serial numbers; the devices are DeviceInfo), _config and
\* unique id.
NoFlow == [active |-> FALSE, step |-> "", fleet |-> {}, config |-> {}, unique_id |-> ""]

FleetOutcome(r) ==
    IF r.raised # "none" THEN r.raised ELSE IF r.fleet = {} THEN "empty" ELSE "ok"

\* async_show_form / async_abort / async_create_entry, and a step that raised.
Form(step, errors, options) ==
    [type |-> "form", step |-> step, errors |-> errors, options |-> options,
     raised |-> "none"]
Abort(reason) == [type |-> "abort", reason |-> reason, raised |-> "none"]
CreateEntry(title, data) ==
    [type |-> "create_entry", title |-> title, data |-> data, raised |-> "none"]
Raised(ex) == [type |-> "none", raised |-> ex]

\* A local variable that no statement has assigned yet.
Unbound == "<unbound>"

\* config_flow.py:139-165, the machine_selection form: one option per machine of
\* the fleet, each with the value of the local `serial_number` (assigned at line
\* 112, only when the step got input) and labelled with the machine.
machine_selection_form(fleet, serial_number, errors) ==
    IF fleet # {} /\ serial_number = Unbound THEN Raised("UnboundLocalError")
    ELSE IF fleet = {} THEN Raised("IndexError")
    ELSE Form("machine_selection", errors,
              {[value |-> serial_number, label |-> <<DeviceInfo(s).model, s>>] : s \in fleet})

\* The host's _abort_if_unique_id_configured.
unique_id_configured(e, serial) == e.exists /\ e.unique_id = serial

\* config_flow.py:113-114: the unique id is set and checked before anything else.
aborts_never(e, serial) == FALSE

aborts_if_configured(e, serial) == unique_id_configured(e, serial)

\* config_flow.py:116, `self._fleet[CONF_MACHINE]`: the serial number whose device
\* is the selected one, or none when the lookup raises KeyError.
selected_device(fleet, serial_number) == fleet \cap {CONF_MACHINE}

\* async_init with source user: async_step_user without input shows the form.
LM_flow_init ==
    /\ ~stopped
    /\ ~uflow.active
    /\ uflow' = [NoFlow EXCEPT !.active = TRUE, !.step = "user"]
    /\ res' = [op |-> "flow_init", result |-> Form("user", {}, {})]
    /\ ev' = Event("flow_init", LM, TRUE)
    /\ poll' = NoPoll
    /\ http' = NoHttp
    /\ UNCHANGED <<tentry, tflow, update_in_progress, now, ticks, state, hass_data, flows, lm, td, task, hook, listener,
                   deleted, stopped, entry>>

\* config_flow.py, async_step_user with the credentials entered, in a flow that
\* is no reauth flow: the fleet is requested once; an error shows the user form
\* again, none stores the data and goes on to async_step_machine_selection()
\* without input.  A step that raises leaves the flow at its current step.
LM_step_user ==
    /\ ~stopped
    /\ uflow.active /\ uflow.step = "user"
    /\ \E password \in Passwords, r \in FleetResults :
         LET err == LM_fleet_error(FleetOutcome(r))
             fleet == IF r.raised = "none" THEN r.fleet ELSE uflow.fleet
             result == IF err # "" THEN Form("user", {<<"base", err>>}, {})
                       ELSE machine_selection_form(fleet, Unbound, {})
         IN
         /\ uflow' = [uflow EXCEPT
                        !.fleet = fleet,
                        !.config = IF err = "" THEN USER_INPUT(password) ELSE @,
                        !.step = IF result.type = "form" THEN result.step ELSE @]
         /\ res' = [op |-> "step_user", input |-> USER_INPUT(password), fleet |-> r,
                    fleet_calls |-> 1, result |-> result, old |-> entry]
         /\ ev' = Event("step_user", LM, result.type = "form" /\ err = "")
    /\ poll' = NoPoll
    /\ http' = NoHttp
    /\ UNCHANGED <<tentry, tflow, update_in_progress, now, ticks, state, hass_data, flows, lm, td, task, hook, listener,
                   deleted, stopped, entry>>

\* config_flow.py, async_step_machine_selection with input (the serial number
\* selected and, optionally, a host), in a flow whose user step has stored the
\* credentials and gone on to this step; `valid` is what validate_connection
\* returns if it is called.  The model holds one La Marzocco entry: with an
\* entry present, its machine is the one selected.
LM_step_machine_selection ==
    /\ ~stopped
    /\ uflow.active /\ uflow.config # {}
    /\ \E serial \in Serials, host \in {{}, {<<"host", "192.168.1.1">>}},
          valid \in BOOLEAN :
         LET user_input == {<<CONF_MACHINE, serial>>} \cup host
             abort == aborts_if_configured(entry, serial)
             sel == selected_device(uflow.fleet, serial)
             device == DeviceInfo(CHOOSE s \in sel : TRUE)
             validated == ~abort /\ sel # {} /\ host # {}
             errors == IF validated /\ ~valid THEN {<<"host", "cannot_connect">>} ELSE {}
             result ==
                 IF abort THEN Abort("already_configured")
                 ELSE IF sel = {} THEN Raised("KeyError")
                 ELSE IF errors = {}
                 THEN CreateEntry(serial,
                          Merge(Merge(uflow.config, user_input),
                                {<<"name", device.name>>, <<"model", device.model>>,
                                 <<"token", device.communication_key>>}))
                 ELSE machine_selection_form(uflow.fleet, serial, errors)
         IN
         /\ entry.exists => serial = entry.unique_id
         /\ host # {} \/ valid
         /\ uflow' = IF result.type \in {"abort", "create_entry"} THEN NoFlow
                     ELSE [uflow EXCEPT
                             !.unique_id = serial,
                             !.step = IF result.type = "form" THEN result.step ELSE @]
         /\ entry' = IF result.type = "create_entry"
                     THEN Entry(2, serial, result.title, result.data)
                     ELSE entry
         /\ res' = [op |-> "step_machine_selection", serial |-> serial, host |-> host,
                    valid |-> valid, fleet |-> uflow.fleet, config |-> uflow.config,
                    validate_calls |-> IF validated THEN 1 ELSE 0, fleet_calls |-> 0,
                    result |-> result, old |-> entry]
         /\ ev' = Event("step_machine_selection", LM, result.type = "create_entry")
    /\ poll' = NoPoll
    /\ http' = NoHttp
    /\ UNCHANGED <<tentry, tflow, update_in_progress, now, ticks, state, hass_data, flows, lm, td, task, hook, listener,
                   deleted, stopped>>

\* ====================================== La Marzocco: services and numbers
\* The entry id of the La Marzocco entry, and one that no entry has.
LM_ENTRY_ID == "lm_entry"
EntryIds == {LM_ENTRY_ID, "invalid"}

Services == {"set_auto_on_off_enable", "set_auto_on_off_times", "set_dose",
             "set_dose_hot_water", "set_prebrew_times", "set_preinfusion_time"}
KeyedServices == {"set_dose", "set_prebrew_times", "set_preinfusion_time"}

\* What a call of a machine method does: it returns, or raises.
MachineOutcomes == {"ok", "AuthFail", "RequestNotSuccessful", "TimeoutError",
                    "BluetoothConnectionFailed"}
ErrorMessages == {"BadRequest", "Unauthorized"}

\* The machine method (of coordinator.lm) each service handler calls.
ServiceMethod(service) ==
    IF service = "set_auto_on_off_times" THEN "set_auto_on_off" ELSE service

\* services.py, __get_coordinator: the exception raised for the entry id of a
\* call ("none" when the coordinator is returned).
get_coordinator(entry_id, e, st, stored) ==
    IF ~(e.exists /\ entry_id = LM_ENTRY_ID)
    THEN [raised |-> "ServiceValidationError", key |-> "invalid_config_entry"]
    ELSE IF st # "LOADED"
    THEN [raised |-> "ServiceValidationError", key |-> "unloaded_config_entry"]
    ELSE IF ~stored
    THEN [raised |-> "KeyError", key |-> ""]
    ELSE [raised |-> "none", key |-> ""]

\* services.py, the handlers' checks of coordinator.lm.model_name and of the key:
\* the translation key of the ServiceValidationError raised ("" when none is).
service_check_any_key(service, model, key) ==
    CASE service = "set_dose" -> IF model # "GS3_AV" THEN "invalid_model" ELSE ""
      [] service = "set_dose_hot_water" ->
           IF model \notin {"GS3_AV", "GS3_MP"} THEN "invalid_model" ELSE ""
      [] service \in {"set_prebrew_times", "set_preinfusion_time"} ->
           IF model = "GS3_MP" THEN "invalid_model" ELSE ""
      [] OTHER -> ""

service_check(service, model, key) ==
    CASE service = "set_dose" -> IF model # "GS3_AV" THEN "invalid_model" ELSE ""
      [] service = "set_dose_hot_water" ->
           IF model \notin {"GS3_AV", "GS3_MP"} THEN "invalid_model" ELSE ""
      [] service \in {"set_prebrew_times", "set_preinfusion_time"} ->
           IF model = "GS3_MP" THEN "invalid_model"
           ELSE IF model \in {"LINEA_MINI", "LINEA_MICRA"} /\ key > 1 THEN "invalid_key"
           ELSE ""
      [] OTHER -> ""

\* services.py, __call_service: the machine method is awaited once; AuthFail,
\* RequestNotSuccessful and TimeoutError become HomeAssistantError with the
\* vendor's message after a fixed prefix, anything else propagates.
call_service_retry(method, outcome, msg) ==
    IF outcome = "ok"
    THEN [calls |-> <<method>>, raised |-> "none", message |-> <<>>]
    ELSE IF outcome \in {"AuthFail", "RequestNotSuccessful", "TimeoutError"}
    THEN [calls |-> <<method, method>>, raised |-> "HomeAssistantError",
          message |-> <<"Service call encountered error: ", msg>>]
    ELSE [calls |-> <<method>>, raised |-> outcome, message |-> <<msg>>]

call_service(method, outcome, msg) ==
    IF outcome = "ok"
    THEN [calls |-> <<method>>, raised |-> "none", message |-> <<>>]
    ELSE IF outcome \in {"AuthFail", "RequestNotSuccessful", "TimeoutError"}
    THEN [calls |-> <<method>>, raised |-> "HomeAssistantError",
          message |-> <<"Service call encountered error: ", msg>>]
    ELSE [calls |-> <<method>>, raised |-> outcome, message |-> <<msg>>]

\* services.py, a service handler (_set_dose, ...): the coordinator of the entry,
\* the model and key checks, then the machine call.
service_handler(service, entry_id, key, e, st, stored, outcome, msg) ==
    LET c == get_coordinator(entry_id, e, st, stored)
        chk == service_check(service, Get(e.data, "model"), key)
    IN IF c.raised # "none"
       THEN [calls |-> <<>>, raised |-> c.raised, message |-> <<c.key>>]
       ELSE IF chk # ""
       THEN [calls |-> <<>>, raised |-> "ServiceValidationError", message |-> <<chk>>]
       ELSE call_service(ServiceMethod(service), outcome, msg)

\* A call of one of the integration's services.
LM_service_call ==
    /\ ~stopped
    /\ \E service \in Services, entry_id \in EntryIds, key \in 1 .. MaxKey,
          outcome \in MachineOutcomes, msg \in ErrorMessages :
         LET r == service_handler(service, entry_id, key, entry, state[LM], hass_data[LM],
                                  outcome, msg)
         IN
         /\ service \in KeyedServices \/ key = 1
         /\ outcome # "ok" \/ msg = "BadRequest"
         /\ r.calls # <<>> \/ (outcome = "ok")
         /\ res' = [op |-> "service", service |-> service, entry_id |-> entry_id,
                    key |-> key, outcome |-> outcome, msg |-> msg, calls |-> r.calls,
                    raised |-> r.raised, message |-> r.message]
         /\ ev' = Event("service", LM, r.raised = "none")
    /\ poll' = NoPoll
    /\ http' = NoHttp
    /\ UNCHANGED <<tentry, tflow, update_in_progress, now, ticks, state, hass_data, flows, lm, td, task, hook, listener,
                   deleted, stopped, entry, uflow>>

\* number.py, KEY_ENTITIES: the keyed number entities.
KEY_ENTITIES == {"prebrew_off", "prebrew_on", "preinfusion_off"}

\* lm.current_status as far as the entities' enabled_fn read it.
Statuses == [enable_prebrewing : BOOLEAN, enable_preinfusion : BOOLEAN]

\* number.py, enabled_fn and not_settable_reason of the entity descriptions.
enabled_fn_any(description, status) ==
    status.enable_prebrewing \/ status.enable_preinfusion

enabled_fn(description, status) ==
    IF description \in {"prebrew_off", "prebrew_on"}
    THEN status.enable_prebrewing
    ELSE status.enable_preinfusion

not_settable_reason(description) ==
    IF description \in {"prebrew_off", "prebrew_on"}
    THEN "Prebrewing is not enabled"
    ELSE "Preinfusion is not enabled"

\* number.py:166-193, the keyed entities the platform adds for a model: one per
\* key on a GS3 AV, one for key 1 on Linea Mini and Micra, none on a GS3 MP.
KeyNumberKeys(model) ==
    CASE model = "GS3_AV" -> 1 .. MaxKey
      [] model \in {"LINEA_MICRA", "LINEA_MINI"} -> {1}
      [] OTHER -> {}

\* number.py, LaMarzoccoKeyNumberEntity.async_set_native_value.
async_set_native_value(description, status, outcome) ==
    IF ~enabled_fn(description, status)
    THEN [calls |-> <<>>, raised |-> "HomeAssistantError",
          message |-> <<"Not possible to set: ", not_settable_reason(description)>>,
          written |-> FALSE]
    ELSE [calls |-> <<"configure_prebrew">>,
          raised |-> IF outcome = "ok" THEN "none" ELSE outcome,
          message |-> <<>>, written |-> outcome = "ok"]

\* The number platform's set_value service on a keyed entity of the loaded entry.
LM_number_set ==
    /\ ~stopped
    /\ state[LM] = "LOADED"
    /\ \E description \in KEY_ENTITIES, key \in KeyNumberKeys(Get(entry.data, "model")),
          status \in Statuses, outcome \in MachineOutcomes :
         LET r == async_set_native_value(description, status, outcome) IN
         /\ r.calls # <<>> \/ outcome = "ok"
         /\ res' = [op |-> "number_set", description |-> description, key |-> key,
                    status |-> status, outcome |-> outcome, calls |-> r.calls,
                    raised |-> r.raised, message |-> r.message, written |-> r.written]
         /\ ev' = Event("number_set", LM, r.raised = "none")
    /\ poll' = NoPoll
    /\ http' = NoHttp
    /\ UNCHANGED <<tentry, tflow, update_in_progress, now, ticks, state, hass_data, flows, lm, td, task, hook, listener,
                   deleted, stopped, entry, uflow>>

\* ------------------------------------------- La Marzocco: update entities
\* update.py, LaMarzoccoUpdateEntity.async_install: the flag is set and written,
\* the vendor's update is awaited, and the flag is cleared and written after the
\* check of its answer.
async_install(success) ==
    [in_progress |-> ~success,
     written |-> IF success THEN <<TRUE, FALSE>> ELSE <<TRUE>>,
     calls |-> <<"update_firmware">>,
     raised |-> IF success THEN "none" ELSE "HomeAssistantError",
     message |-> IF success THEN "" ELSE "Update failed"]

\* The update platform's install service on an update entity of the loaded entry.
LM_update_install ==
    /\ ~stopped
    /\ state[LM] = "LOADED"
    /\ \E key \in UpdateKeys, success \in BOOLEAN :
         LET r == async_install(success) IN
         /\ update_in_progress' = [update_in_progress EXCEPT ![key] = r.in_progress]
         /\ res' = [op |-> "install", key |-> key, success |-> success,
                    written |-> r.written, calls |-> r.calls, raised |-> r.raised,
                    message |-> r.message]
         /\ ev' = Event("install", LM, success)
    /\ poll' = NoPoll
    /\ http' = NoHttp
    /\ UNCHANGED <<now, ticks, state, hass_data, flows, lm, td, task, hook, listener,
                   deleted, stopped, entry, uflow, tentry, tflow>>

\* ------------------------------------------- La Marzocco: the calendar
\* calendar.py: a datetime is a day (counted from today), an hour and a minute.
CALENDAR_DAYS_AHEAD == 6
DAYS_PER_WEEK == 7
Weekdays == 0 .. DAYS_PER_WEEK - 1
\* Python's None where an event is expected.
None == [none |-> TRUE]

\* The machine's schedule of one weekday, as the vendor object holds it.
DaySchedules ==
    {[enable |-> "Disabled", on |-> "00:00", off |-> "00:00"],
     [enable |-> "Enabled", on |-> "08:00", off |-> "17:30"]}

\* The machine's schedule of the week: at most MaxEnabledDays days are enabled.
Schedules ==
    {sch \in [Weekdays -> DaySchedules] :
        Cardinality({d \in Weekdays : sch[d].enable = "Enabled"}) <= MaxEnabledDays}

\* The weekdays the property is read on: a Monday, whose window does not wrap
\* around the week, and a Sunday, whose window does.
Todays == {0, DAYS_PER_WEEK - 1}

\* The times of day the property is read at: before, during and after a scheduled
\* event of that day.
ClockTimes == {<<7, 0>>, <<12, 0>>, <<20, 0>>}

\* `hour, minute = s.split(":")`, each then given to int().
split_time(s) ==
    CASE s = "00:00" -> <<0, 0>>
      [] s = "08:00" -> <<8, 0>>
      [] s = "17:30" -> <<17, 30>>

DateTime(day, hour, minute) == [day |-> day, hour |-> hour, minute |-> minute]

\* The order of datetimes: minutes since today's midnight.
Minutes(dt) == (dt.day * 24 + dt.hour) * 60 + dt.minute

\* calendar.py, _asnyc_date_range: the dates from start_date to end_date, a day apart.
async_date_range(start_date, end_date) ==
    [i \in 1 .. (end_date.day - start_date.day + 1) |->
        [start_date EXCEPT !.day = start_date.day + i - 1]]

\* calendar.py, _async_get_calendar_event: date.weekday() is counted from the
\* weekday `today`, and date.replace() keeps the day.
async_get_calendar_event(global_auto, schedule, today, date) ==
    LET schedule_day == schedule[(today + date.day) % DAYS_PER_WEEK]
        on == split_time(schedule_day.on)
        off == split_time(schedule_day.off)
    IN
    IF global_auto # "Enabled" THEN None
    ELSE IF schedule_day.enable = "Disabled" THEN None
    ELSE [start |-> DateTime(date.day, on[1], on[2]),
          end |-> DateTime(date.day, off[1], off[2])]

\* calendar.py, the loop of `event` over the dates left.
RECURSIVE event_in(_, _, _, _, _)
event_in(dates, global_auto, schedule, today, time) ==
    IF dates = <<>> THEN None
    ELSE LET scheduled == async_get_calendar_event(global_auto, schedule, today, Head(dates)) IN
         IF scheduled # None /\ ~(Minutes(scheduled.end) > Minutes(time))
         THEN scheduled
         ELSE event_in(Tail(dates), global_auto, schedule, today, time)

\* calendar.py, LaMarzoccoCalendarEntity.event, read at `time` of today.
event(global_auto, schedule, today, time) ==
    event_in(async_date_range(time, [time EXCEPT !.day = @ + CALENDAR_DAYS_AHEAD]),
             global_auto, schedule, today, time)

\* The host reads the calendar entity's `event` of the loaded entry.
LM_calendar_event ==
    /\ ~stopped
    /\ state[LM] = "LOADED"
    /\ \E global_auto \in {"Enabled", "Disabled"}, schedule \in Schedules,
          today \in Todays, hm \in ClockTimes :
         LET time == DateTime(0, hm[1], hm[2]) IN
         /\ res' = [op |-> "calendar_event", global_auto |-> global_auto,
                    schedule |-> schedule, today |-> today, time |-> time,
                    result |-> event(global_auto, schedule, today, time)]
         /\ ev' = Event("calendar_event", LM, TRUE)
    /\ poll' = NoPoll
    /\ http' = NoHttp
    /\ UNCHANGED <<tentry, tflow, update_in_progress, now, ticks, state, hass_data, flows, lm, td, task, hook, listener,
                   deleted, stopped, entry, uflow>>


\* ================================================================ Tedee
\* const.py: the keys of the entry's data and of the forms.
CONF_HOST == "host"
CONF_LOCAL_ACCESS_TOKEN == "local_access_token"
CONF_USE_LOCAL_API == "use_local_api"
CONF_USE_CLOUD_API == "use_cloud_api"
NAME == "Tedee"

\* The bridge the entry was made for, and the entry.
BridgeSerials == {"0000-0000", "1111-1111"}
TedeeEntry ==
    [exists |-> TRUE, unique_id |-> "0000-0000", title |-> NAME,
     data |-> {<<CONF_HOST, "192.168.1.42">>, <<CONF_LOCAL_ACCESS_TOKEN, "api_token">>}]

NoTedeeEntry == [exists |-> FALSE, unique_id |-> "", title |-> "", data |-> {}]

\* The data_schema of a form: its required and its optional keys.
Schema(required, optional) == [required |-> required, optional |-> optional]

\* config_flow.py, TedeeConfigFlow.__init__, and the form the host last showed.
NoTedeeFlow ==
    [active |-> FALSE, source |-> "", reauth_entry |-> FALSE, local_bridge |-> "",
     step |-> "", schema |-> Schema({}, {})]

TDOutcomes == {"ok", "TedeeLocalAuthException", "TedeeDataUpdateException",
               "TedeeClientException", "TimeoutError", "TedeeAuthException"}

\* coordinator.py, _async_update: the exception a vendor call's outcome is
\* re-raised as; one it does not catch propagates as it is.
Tedee_update_auth_as_failed(o) ==
    CASE o = "ok" -> "none"
      [] o \in {"TedeeLocalAuthException", "TedeeDataUpdateException",
                "TedeeClientException", "TimeoutError"} -> "UpdateFailed"
      [] OTHER -> o

Tedee_update_client_as_auth(o) ==
    CASE o = "ok" -> "none"
      [] o \in {"TedeeLocalAuthException", "TedeeClientException"} -> "ConfigEntryAuthFailed"
      [] o \in {"TedeeDataUpdateException", "TimeoutError"} -> "UpdateFailed"
      [] OTHER -> o

Tedee_async_update(o) ==
    CASE o = "ok" -> "none"
      [] o = "TedeeLocalAuthException" -> "ConfigEntryAuthFailed"
      [] o \in {"TedeeDataUpdateException", "TedeeClientException", "TimeoutError"}
           -> "UpdateFailed"
      [] OTHER -> o

\* coordinator.py:78 calls _async_update_locks, which the coordinator class does
\* not define: taken to map errors as _async_update does.
Tedee_async_update_locks(o) == Tedee_async_update(o)

TDFresh(t) == [bridge |-> FALSE, next_full |-> t, current |-> {}, locks |-> {},
               ncb |-> 0]

\* The outcomes of the vendor calls of one poll: those after a failed call are
\* never drawn, and are listed as "ok" and no locks.
TDUsed(ob, ol, fetched) ==
    (ob # "ok" => ol = "ok") /\ (ol # "ok" \/ ob # "ok" => fetched = {})

TDStep(p, name, o, raised) ==
    IF p.raised # "none" THEN p
    ELSE [p EXCEPT !.calls = Append(@, name), !.outs = Append(@, o),
                   !.raised = raised]

\* The (lock, callback) pairs a poll calls back: every callback for every new lock.
Tedee_new_lock_calls(ok, new, ncb) == IF ok THEN new \X (1 .. ncb) ELSE {}

\* coordinator.py:76, `self._next_full_update <= time.time()`.
full_update_always(next_full, t) == TRUE

full_update_due(next_full, t) == next_full <= t

\* coordinator.py, _async_update_data: the coordinator, its client's locks and the
\* poll's trace; `fetched` are the locks the vendor returns.
Tedee_async_update_data(c, t, ob, ol, fetched) ==
    LET p0 == [NoPoll EXCEPT !.ran = TRUE]
        p1 == IF c.bridge THEN p0
              ELSE TDStep(p0, "get_local_bridge", ob, Tedee_async_update(ob))
        c1 == IF ~c.bridge /\ p1.raised = "none" THEN [c EXCEPT !.bridge = TRUE] ELSE c
        full == full_update_due(c.next_full, t)
        p2 == IF full
              THEN TDStep(p1, "get_locks", ol, Tedee_async_update_locks(ol))
              ELSE TDStep(p1, "sync", ol, Tedee_async_update(ol))
        ok == p2.raised = "none"
        cur == IF c.current = {} THEN fetched ELSE c.current
        new == fetched \ cur
        c2 == IF ok
              THEN [c1 EXCEPT !.locks = fetched,
                              !.next_full = IF full THEN t + FULL_UPDATE_INTERVAL_SECONDS ELSE @,
                              !.current = cur]
              ELSE c1
    IN [c |-> c2,
        p |-> [p2 EXCEPT !.returned = IF ok THEN fetched ELSE NoData,
                         !.notified = Tedee_new_lock_calls(ok, new, c.ncb)]]

\* config_flow.py, async_step_reauth: the form the new flow shows.
Tedee_async_step_reauth == "user"

\* __init__.py, async_setup_entry: whether hass.data gets the coordinator, given
\* what the first refresh raised.
Tedee_stores(raised) == raised = "none"

\* __init__.py, async_setup_entry under the host's async_setup: a new coordinator
\* and client, the first refresh, and only then hass.data, the webhook task and the
\* platforms (which register `ncb` new-lock callbacks).
TedeeSetupOutcome(t, fl, ob, ol, fetched, ncb) ==
    LET r == Tedee_async_update_data(TDFresh(t), t, ob, ol, fetched)
        st == FirstRefreshState(r.p.raised)
    IN [state |-> IF st = "" THEN "LOADED" ELSE st,
        data |-> Tedee_stores(r.p.raised),
        td |-> IF st = "" THEN [r.c EXCEPT !.ncb = ncb] ELSE TDFresh(0),
        task |-> IF st = "" THEN "pending" ELSE "none",
        flows |-> IF st = "SETUP_ERROR"
                  THEN async_start_reauth(fl, TEDEE, Tedee_async_step_reauth)
                  ELSE fl,
        p |-> [r.p EXCEPT !.first = TRUE]]

\* A handler still registered stays bound to the coordinator it was made for.
Tedee_async_setup_entry ==
    /\ ~stopped
    /\ tentry.exists
    /\ state[TEDEE] \in {"NOT_LOADED", "SETUP_RETRY"}
    /\ \E ob \in TDOutcomes, ol \in TDOutcomes, fetched \in SUBSET LockIds,
          ncb \in 0 .. MaxCallbacks :
         /\ TDUsed(ob, ol, fetched)
         /\ (ob = "ok" /\ ol = "ok") \/ ncb = 0
         /\ LET s == TedeeSetupOutcome(now, flows, ob, ol, fetched, ncb)
            IN
            /\ state' = [state EXCEPT ![TEDEE] = s.state]
            /\ hass_data' = [hass_data EXCEPT ![TEDEE] = @ \/ s.data]
            /\ td' = s.td
            /\ task' = s.task
            /\ flows' = s.flows
            /\ poll' = s.p
            /\ ev' = Event("setup", TEDEE, s.state = "LOADED")
    /\ hook' = {[h EXCEPT !.current = FALSE] : h \in hook}
    /\ http' = NoHttp
    /\ res' = NoRes
    /\ UNCHANGED <<tentry, tflow, update_in_progress, entry, uflow, now, ticks, lm, listener, deleted, stopped>>

\* __init__.py, async_unload_entry: the coordinator is popped when the platforms
\* unloaded.
Tedee_pop_always(unload_ok) == FALSE

Tedee_keeps(unload_ok) == ~unload_ok

\* The host's async_unload: after a successful unload it cancels the entry's
\* background tasks and runs its on_unload callbacks, which remove the stop listener.
Tedee_async_unload_entry ==
    /\ ~stopped
    /\ state[TEDEE] \in {"LOADED", "SETUP_ERROR", "SETUP_RETRY"}
    /\ \E unload_ok \in BOOLEAN :
         LET done == state[TEDEE] = "LOADED" /\ unload_ok IN
         /\ state[TEDEE] = "LOADED" \/ unload_ok
         /\ state' = [state EXCEPT ![TEDEE] = UnloadState(state[TEDEE], unload_ok)]
         /\ hass_data' = [hass_data EXCEPT ![TEDEE] =
                IF state[TEDEE] = "LOADED" THEN Tedee_keeps(unload_ok) ELSE @]
         /\ task' = IF done THEN "none" ELSE task
         /\ listener' = IF done THEN FALSE ELSE listener
         /\ td' = IF done THEN TDFresh(0) ELSE td
         /\ ev' = IF state[TEDEE] = "LOADED" THEN Event("unload", TEDEE, unload_ok)
                  ELSE Event("cancel", TEDEE, TRUE)
    /\ poll' = NoPoll
    /\ http' = NoHttp
    /\ res' = NoRes
    /\ UNCHANGED <<tentry, tflow, update_in_progress, entry, uflow, now, ticks, flows, lm, hook, deleted, stopped>>

\* The coordinator's scheduled or requested refresh of a loaded entry.
Tedee_poll ==
    /\ ~stopped
    /\ state[TEDEE] = "LOADED"
    /\ \E ob \in TDOutcomes, ol \in TDOutcomes, fetched \in SUBSET LockIds :
         LET r == Tedee_async_update_data(td, now, ob, ol, fetched) IN
         /\ TDUsed(ob, ol, fetched)
         /\ td.bridge => ob = "ok"
         /\ td' = r.c
         /\ poll' = r.p
         /\ flows' = IF r.p.raised = "ConfigEntryAuthFailed"
                     THEN async_start_reauth(flows, TEDEE, Tedee_async_step_reauth)
                     ELSE flows
         /\ ev' = Event("poll", TEDEE, r.p.raised = "none")
    /\ http' = NoHttp
    /\ res' = NoRes
    /\ UNCHANGED <<tentry, tflow, update_in_progress, entry, uflow, now, ticks, state, hass_data, lm, task, hook, listener, deleted, stopped>>

\* __init__.py, register_webhook (the background task): the handler is registered
\* with the host under a new api_key, which refuses a second handler for the same
\* webhook id; then the bridge is told, and the stop listener is installed only
\* when the bridge accepted.
WebhookOutcomes == {"ok", "TedeeWebhookException"}

\* coordinator.async_register_webhook, which the coordinator class does not
\* define: taken to pass the bridge's answer on (the exception raised, if any).
Tedee_async_register_webhook(o) == IF o = "ok" THEN "none" ELSE o

\* __init__.py:88-97: the stop listener is installed in the try's else branch.
listens_for_stop(raised) == raised = "none"

register_webhook ==
    /\ ~stopped
    /\ task = "pending"
    /\ \E api_key \in Keys, o \in WebhookOutcomes :
         IF hook # {}
         THEN /\ o = "ok"
              /\ task' = "failed"
              /\ ev' = Event("register_webhook", TEDEE, FALSE)
              /\ UNCHANGED <<hook, listener>>
         ELSE /\ hook' = {[key |-> api_key, current |-> TRUE]}
              /\ task' = IF o = "ok" THEN "registered" ELSE "refused"
              /\ listener' = (listener \/ listens_for_stop(Tedee_async_register_webhook(o)))
              /\ ev' = Event("register_webhook", TEDEE, o = "ok")
    /\ poll' = NoPoll
    /\ http' = NoHttp
    /\ res' = NoRes
    /\ UNCHANGED <<tentry, tflow, update_in_progress, entry, uflow, now, ticks, state, hass_data, flows, lm, td, deleted, stopped>>

\* coordinator.async_unregister_webhook, which the coordinator class does not
\* define: taken to call the vendor client's delete_webhooks once.
Tedee_async_unregister_webhook(n) == n + 1

\* __init__.py, unregister_webhook: the bridge's registration is deleted, then the
\* host's handler is unregistered.
unregister_skip_bridge(n) == n

unregister_webhook(n) == Tedee_async_unregister_webhook(n)

\* The host fires EVENT_HOMEASSISTANT_STOP: the listen_once listener, if installed,
\* runs unregister_webhook.
homeassistant_stop ==
    /\ ~stopped
    /\ stopped' = TRUE
    /\ deleted' = IF listener THEN unregister_webhook(deleted) ELSE deleted
    /\ hook' = IF listener THEN {} ELSE hook
    /\ listener' = FALSE
    /\ ev' = Event("stop", TEDEE, listener)
    /\ poll' = NoPoll
    /\ http' = NoHttp
    /\ res' = NoRes
    /\ UNCHANGED <<tentry, tflow, update_in_progress, entry, uflow, now, ticks, state, hass_data, flows, lm, td, task>>

\* ------------------------------------------------------ the webhook handler
\* HomeAssistantView.json(result=..., status_code=...): the reply's envelope.
json(result, status_code) == [status |-> status_code, body |-> [result |-> result]]

NoReply == [status |-> 0, body |-> [result |-> ""]]

ParserMessages == {"invalid payload", "unknown event"}
Bodies == {"none", "json_ok", "json_bad", "not_json"}

\* __init__.py:131, the header check: `hdr` is the set of Authorization header
\* values of the request (none or one).
authorized_when_absent(hdr, api_key) == hdr = {} \/ hdr = {api_key}

authorized(hdr, api_key) == hdr = {api_key}

\* __init__.py:132-134, the reply to an unauthorized request.
unauthorized_as_message == [status |-> HTTP_OK, body |-> [message |-> "Unauthorized", code |-> 0]]

unauthorized_reply == json("Unauthorized", HTTP_UNAUTHORIZED)

\* coordinator.py, webhook_received: the vendor parser, then the listeners; a
\* parser that raises ends it.
webhook_notify_first(accepted) == <<"notify", "parse">>

webhook_received(accepted) ==
    IF accepted THEN <<"parse", "notify">> ELSE <<"parse">>

\* __init__.py:139-142, the reply to a body the parser rejected with message `msg`.
rejected_fixed(msg) == json("Bad Request", HTTP_BAD_REQUEST)

rejected_reply(msg) == json(msg, HTTP_BAD_REQUEST)

\* __init__.py, async_webhook_handler of get_webhook_handler(coordinator, api_key):
\* the reply, what the coordinator did, and the exception that escaped.
async_webhook_handler(api_key, body, hdr, msg) ==
    IF body = "none"
    THEN [reply |-> json("No Body", HTTP_BAD_REQUEST), log |-> <<>>, raised |-> "none"]
    ELSE IF ~authorized(hdr, api_key)
    THEN [reply |-> unauthorized_reply, log |-> <<>>, raised |-> "none"]
    ELSE IF body = "not_json"
    THEN [reply |-> NoReply, log |-> <<>>, raised |-> "JSONDecodeError"]
    ELSE IF body = "json_bad"
    THEN [reply |-> rejected_reply(msg), log |-> webhook_received(FALSE), raised |-> "none"]
    ELSE [reply |-> json("OK", HTTP_OK), log |-> webhook_received(TRUE), raised |-> "none"]

\* A POST to the entry's webhook path, which the host hands to the registered handler.
webhook_post ==
    /\ ~stopped
    /\ \E h \in hook, body \in Bodies, hdr \in {{}} \cup {{k} : k \in Keys},
          msg \in ParserMessages :
         LET r == async_webhook_handler(h.key, body, hdr, msg) IN
         /\ body = "json_bad" \/ msg = "invalid payload"
         /\ http' = [served |-> TRUE, key |-> h.key, body |-> body, hdr |-> hdr,
                     msg |-> msg, reply |-> r.reply, log |-> r.log,
                     raised |-> r.raised, loaded |-> state[TEDEE] = "LOADED"]
         /\ ev' = Event("webhook", TEDEE, r.reply.status = HTTP_OK)
    /\ poll' = NoPoll
    /\ res' = NoRes
    /\ UNCHANGED <<tentry, tflow, update_in_progress, entry, uflow, now, ticks, state, hass_data, flows, lm, td, task, hook, listener,
                   deleted, stopped>>

\* ------------------------------------------------- Tedee: lock entities
\* lock.py, async_lock, async_unlock and (on a lock with pullspring) async_open:
\* the vendor method of each, the state the entity gives the lock first, and the
\* door action its error message names.
LockCommands == {"lock", "unlock", "open"}
transitional(cmd) == IF cmd = "lock" THEN "LOCKING" ELSE "UNLOCKING"
failed_to(cmd) == IF cmd = "open" THEN "unlatch" ELSE cmd

\* The body of a command: the state is set and written, then the vendor call and
\* the refresh request are awaited; `o` and `orf` are their outcomes, and anything
\* either raises is re-raised as HomeAssistantError.
lock_command(cmd, lock_id, o, orf) ==
    LET failed == o # "ok" \/ orf # "ok" IN
    [state |-> transitional(cmd),
     log |-> IF o = "ok" THEN <<"async_write_ha_state", cmd, "async_request_refresh">>
             ELSE <<"async_write_ha_state", cmd>>,
     raised |-> IF failed THEN "HomeAssistantError" ELSE "none",
     message |-> IF failed THEN <<"Failed to", failed_to(cmd), "the door. Lock", lock_id>>
                 ELSE <<>>]

\* The lock platform's service on the entity of a lock of the loaded entry.
Tedee_lock_command ==
    /\ ~stopped
    /\ state[TEDEE] = "LOADED"
    /\ \E cmd \in LockCommands, lock_id \in td.locks,
          o \in {"ok", "TedeeClientException", "Exception"}, orf \in {"ok", "Exception"} :
         LET r == lock_command(cmd, lock_id, o, orf) IN
         /\ o # "ok" => orf = "ok"
         /\ res' = [op |-> "lock_command", cmd |-> cmd, lock_id |-> lock_id,
                    outcome |-> o, refresh |-> orf, log |-> r.log,
                    raised |-> r.raised, message |-> r.message, state |-> r.state]
         /\ ev' = Event("lock_command", TEDEE, r.raised = "none")
    /\ poll' = NoPoll
    /\ http' = NoHttp
    /\ UNCHANGED <<now, ticks, state, hass_data, flows, lm, td, task, hook, listener,
                   deleted, stopped, entry, uflow, tentry, tflow, update_in_progress>>

\* ------------------------------------------------- Tedee: the config flow
\* The schemas of the forms of async_step_user (58-67), async_step_configure_local
\* (105-118) and async_step_reauth (214-224).
UserSchema == Schema({}, {CONF_USE_LOCAL_API, CONF_USE_CLOUD_API})
LocalSchema == Schema({CONF_HOST, CONF_LOCAL_ACCESS_TOKEN}, {})
ReauthSchema == Schema({CONF_LOCAL_ACCESS_TOKEN}, {})

\* What a user may send to a step: any of the two checkboxes, a host and a token.
TedeeInputs ==
    {a \cup b \cup c \cup d :
        a \in {{}, {<<CONF_USE_LOCAL_API, "true">>}, {<<CONF_USE_LOCAL_API, "false">>}},
        b \in {{}, {<<CONF_USE_CLOUD_API, "true">>}},
        c \in {{}, {<<CONF_HOST, "192.168.1.99">>}},
        d \in {{}, {<<CONF_LOCAL_ACCESS_TOKEN, "new_token">>}}}

InputKeys(d) == {p[1] : p \in d}

\* The host's FlowManager.async_configure: the input is validated against the
\* data_schema of the form shown last, which allows no key it does not name.
schema_accepts(schema, user_input) ==
    /\ schema.required \subseteq InputKeys(user_input)
    /\ InputKeys(user_input) \subseteq schema.required \cup schema.optional

\* `user_input.get(key)` as a condition.
truthy(user_input, key) == Has(user_input, key) /\ Get(user_input, key) = "true"

\* tedee_client.get_local_bridge() with the host and token given.
BridgeOutcomes ==
    {"ok", "TedeeAuthException", "TedeeLocalAuthException", "TedeeClientException"}

\* What a step did: its result, the flow object afterwards, the data written to
\* the reauth entry (none or one dict), the get_local_bridge calls and the host
\* they went to.
StepResult(result, f, update, calls, host) ==
    [result |-> result, flow |-> f, update |-> update, calls |-> calls, host |-> host]

\* config_flow.py, async_step_configure_cloud: with input it reads the input's
\* access token, which no input here holds; without, it shows its form.
Tedee_async_step_configure_cloud(given) ==
    IF given THEN Raised("KeyError")
    ELSE Form("configure_cloud", {}, Schema({"access_token"}, {}))

\* config_flow.py, async_step_configure_local with input; the bridge answers `o`
\* and, when it accepts, has the serial number `serial`.
Tedee_async_step_configure_local(f, e, user_input, o, serial) ==
    IF ~f.reauth_entry /\ ~Has(user_input, CONF_HOST)
    THEN StepResult(Raised("KeyError"), f, {}, 0, "")
    ELSE IF ~Has(user_input, CONF_LOCAL_ACCESS_TOKEN)
    THEN StepResult(Raised("KeyError"), f, {}, 0, "")
    ELSE
    LET host == IF f.reauth_entry THEN Get(e.data, CONF_HOST) ELSE Get(user_input, CONF_HOST)
        f1 == [f EXCEPT !.local_bridge = serial]
    IN
    CASE o \in {"TedeeAuthException", "TedeeLocalAuthException"} ->
           StepResult(Form("user", {<<CONF_LOCAL_ACCESS_TOKEN, "invalid_api_key">>}, LocalSchema),
                      f, {}, 1, host)
      [] o = "TedeeClientException" ->
           StepResult(Form("user", {<<CONF_HOST, "invalid_host">>}, LocalSchema),
                      f, {}, 1, host)
      [] OTHER ->
           IF f.reauth_entry
           THEN StepResult(Abort("reauth_successful"), f1, {Merge(e.data, user_input)}, 1, host)
           ELSE IF unique_id_configured(e, serial)
           THEN StepResult(Abort("already_configured"), f1, {}, 1, host)
           ELSE IF truthy(user_input, CONF_USE_CLOUD_API)
           THEN StepResult(Tedee_async_step_configure_cloud(FALSE), f1, {}, 1, host)
           ELSE StepResult(CreateEntry(NAME, user_input), f1, {}, 1, host)

\* config_flow.py, async_step_user.
Tedee_async_step_user(f, e, given, user_input, o, serial) ==
    IF given /\ truthy(user_input, CONF_USE_LOCAL_API)
    THEN Tedee_async_step_configure_local(f, e, user_input, o, serial)
    ELSE IF given /\ truthy(user_input, CONF_USE_CLOUD_API)
    THEN StepResult(Tedee_async_step_configure_cloud(TRUE), f, {}, 0, "")
    ELSE StepResult(Form("user",
                         IF given THEN {<<"base", "no_option_selected">>} ELSE {},
                         UserSchema),
                    f, {}, 0, "")

\* async_init with source user (async_step_user without input) or with source
\* reauth (async_step_reauth) for the existing entry: either shows a form whose
\* step id is user.
Tedee_flow_init ==
    /\ ~stopped
    /\ ~tflow.active
    /\ \E source \in {"user", "reauth"} :
         LET schema == IF source = "reauth" THEN ReauthSchema
                       ELSE Tedee_async_step_user(NoTedeeFlow, tentry, FALSE, {}, "ok", "").result.options
         IN
         /\ source = "reauth" => tentry.exists
         /\ tflow' = [NoTedeeFlow EXCEPT !.active = TRUE, !.source = source,
                                         !.reauth_entry = (source = "reauth"),
                                         !.step = Tedee_async_step_reauth,
                                         !.schema = schema]
         /\ res' = [op |-> "tedee_flow_init", source |-> source,
                    result |-> Form(Tedee_async_step_reauth, {}, schema)]
    /\ ev' = Event("flow_init", TEDEE, TRUE)
    /\ poll' = NoPoll
    /\ http' = NoHttp
    /\ UNCHANGED <<now, ticks, state, hass_data, flows, lm, td, task, hook, listener,
                   deleted, stopped, entry, uflow, tentry, update_in_progress>>

\* The host's async_reload of the entry: its unload and, when that left the entry
\* not loaded, its setup.
ReloadInputs ==
    {x \in [unload_ok : BOOLEAN, ob : TDOutcomes, ol : TDOutcomes,
            fetched : SUBSET LockIds, ncb : 0 .. MaxCallbacks] :
        /\ TDUsed(x.ob, x.ol, x.fetched)
        /\ (x.ob = "ok" /\ x.ol = "ok") \/ x.ncb = 0}

Tedee_async_reload(x) ==
    LET loaded == state[TEDEE] = "LOADED"
        done == loaded /\ x.unload_ok
        st1 == UnloadState(state[TEDEE], x.unload_ok)
        kept == IF loaded THEN Tedee_keeps(x.unload_ok) ELSE hass_data[TEDEE]
        s == TedeeSetupOutcome(now, flows, x.ob, x.ol, x.fetched, x.ncb)
    IN IF st1 = "NOT_LOADED"
       THEN [state |-> s.state, data |-> kept \/ s.data, td |-> s.td, task |-> s.task,
             flows |-> s.flows, p |-> s.p,
             hook |-> {[h EXCEPT !.current = FALSE] : h \in hook},
             listener |-> IF done THEN FALSE ELSE listener]
       ELSE [state |-> st1, data |-> kept, td |-> td, task |-> task, flows |-> flows,
             p |-> NoPoll, hook |-> hook, listener |-> listener]

\* The host's async_configure of the flow, whose current step is user, with the
\* input the user sent: the host validates it, async_step_user handles it, and
\* the host keeps the form, ends the flow, or leaves it where it was when the
\* step raised.  A created entry becomes the entry when there was none.
Tedee_flow_configure ==
    /\ ~stopped
    /\ tflow.active /\ tflow.step = "user"
    /\ \E user_input \in TedeeInputs, o \in BridgeOutcomes, serial \in BridgeSerials :
         LET valid == schema_accepts(tflow.schema, user_input)
             r == IF valid
                  THEN Tedee_async_step_user(tflow, tentry, TRUE, user_input, o, serial)
                  ELSE StepResult(Raised("InvalidData"), tflow, {}, 0, "")
             type == r.result.type
             created == type = "create_entry" /\ ~tentry.exists
         IN
         /\ r.calls = 0 => o = "ok"
         /\ (r.calls = 0 \/ o # "ok") => serial = "0000-0000"
         /\ tflow' = CASE type = "form" ->
                            [r.flow EXCEPT !.step = r.result.step, !.schema = r.result.options]
                       [] type \in {"abort", "create_entry"} -> NoTedeeFlow
                       [] OTHER -> tflow
         /\ tentry' = IF created
                      THEN [exists |-> TRUE, unique_id |-> serial, title |-> r.result.title,
                            data |-> r.result.data]
                      ELSE IF r.update # {}
                      THEN [tentry EXCEPT !.data = CHOOSE d \in r.update : TRUE]
                      ELSE tentry
         /\ \E x \in IF r.update # {} THEN ReloadInputs
                      ELSE {[unload_ok |-> TRUE, ob |-> "ok", ol |-> "ok",
                             fetched |-> {}, ncb |-> 0]} :
              LET n == Tedee_async_reload(x) IN
              IF r.update # {}
              THEN /\ state' = [state EXCEPT ![TEDEE] = n.state]
                   /\ hass_data' = [hass_data EXCEPT ![TEDEE] = n.data]
                   /\ td' = n.td
                   /\ task' = n.task
                   /\ flows' = n.flows
                   /\ poll' = n.p
                   /\ hook' = n.hook
                   /\ listener' = n.listener
              ELSE /\ poll' = NoPoll
                   /\ UNCHANGED <<state, hass_data, td, task, flows, hook, listener>>
         /\ res' = [op |-> "tedee_configure", source |-> tflow.source,
                    input |-> user_input, outcome |-> o, serial |-> serial,
                    valid |-> valid, calls |-> r.calls, host |-> r.host,
                    reloaded |-> r.update # {}, old |-> tentry, result |-> r.result]
         /\ ev' = Event("flow_configure", TEDEE, type \in {"abort", "create_entry"})
    /\ http' = NoHttp
    /\ UNCHANGED <<now, ticks, lm, deleted, stopped, entry, uflow, update_in_progress>>

\* ------------------------------------------------------------------ clock
Tick ==
    /\ ~stopped
    /\ ticks < MaxTicks
    /\ \E d \in TickSteps : now' = now + d
    /\ ticks' = ticks + 1
    /\ ev' = Event("tick", "", TRUE)
    /\ poll' = NoPoll
    /\ http' = NoHttp
    /\ res' = NoRes
    /\ UNCHANGED <<tentry, tflow, update_in_progress, entry, uflow, state, hass_data, flows, lm, td, task, hook, listener, deleted, stopped>>

\* ---------------------------------------------------------- specifications
InitState(e) ==
    /\ now = 0
    /\ ticks = 0
    /\ state = [d \in Domains |-> "NOT_LOADED"]
    /\ hass_data = [d \in Domains |-> FALSE]
    /\ flows = {}
    /\ lm = LMFresh
    /\ td = TDFresh(0)
    /\ task = "none"
    /\ hook = {}
    /\ listener = FALSE
    /\ deleted = 0
    /\ stopped = FALSE
    /\ entry = e
    /\ uflow = NoFlow
    /\ tentry = TedeeEntry
    /\ tflow = NoTedeeFlow
    /\ update_in_progress = NoUpdates
    /\ ev = Event("init", "", TRUE)
    /\ poll = NoPoll
    /\ http = NoHttp
    /\ res = NoRes

Init == InitState(DefaultEntry)

\* The La Marzocco entry.
NextLM ==
    \/ LM_async_setup_entry
    \/ LM_async_unload_entry
    \/ LM_poll
    \/ LM_reauth_submit
    \/ Tick

SpecLM == Init /\ [][NextLM]_vars

\* The Tedee entry and its coordinator's polls.
NextTedee ==
    \/ Tedee_async_setup_entry
    \/ Tedee_async_unload_entry
    \/ Tedee_poll
    \/ Tick

SpecTedee == Init /\ [][NextTedee]_vars

\* The Tedee entry and its webhook.
NextWebhook ==
    \/ Tedee_async_setup_entry
    \/ Tedee_async_unload_entry
    \/ register_webhook
    \/ homeassistant_stop
    \/ webhook_post

SpecWebhook == Init /\ [][NextWebhook]_vars

\* Setup and unload of both entries, and the lock commands of the loaded Tedee
\* entry.
NextLifecycle ==
    \/ LM_async_setup_entry
    \/ LM_async_unload_entry
    \/ Tedee_async_setup_entry
    \/ Tedee_async_unload_entry
    \/ Tedee_lock_command

SpecLifecycle == Init /\ [][NextLifecycle]_vars

\* A version-1 La Marzocco entry: its migration, then its lifecycle.
InitMigrate == \E e \in V1Entries : InitState(e)

NextMigrate ==
    \/ LM_async_migrate_entry
    \/ LM_async_setup_entry
    \/ LM_async_unload_entry
    \/ Tick

SpecMigrate == InitMigrate /\ [][NextMigrate]_vars

\* The La Marzocco config flow of a user, with or without an entry already there.
InitFlow == \E e \in {NoEntry, DefaultEntry} : InitState(e)

NextFlow ==
    \/ LM_flow_init
    \/ LM_step_user
    \/ LM_step_machine_selection
    \/ LM_async_setup_entry
    \/ LM_async_unload_entry

SpecFlow == InitFlow /\ [][NextFlow]_vars

\* The La Marzocco services and number entities, for a machine of any model.
InitServices == \E m \in Models : InitState(EntryOf("GS01234", m))

NextServices ==
    \/ LM_async_setup_entry
    \/ LM_async_unload_entry
    \/ LM_service_call
    \/ LM_number_set
    \/ LM_update_install

SpecServices == InitServices /\ [][NextServices]_vars

\* The La Marzocco calendar entity.
NextCalendar ==
    \/ LM_async_setup_entry
    \/ LM_async_unload_entry
    \/ LM_calendar_event

SpecCalendar == Init /\ [][NextCalendar]_vars

\* The Tedee config flow, with or without an entry already there.
InitTedeeFlowState ==
    /\ now = 0
    /\ ticks = 0
    /\ state = [d \in Domains |-> "NOT_LOADED"]
    /\ hass_data = [d \in Domains |-> FALSE]
    /\ flows = {}
    /\ lm = LMFresh
    /\ td = TDFresh(0)
    /\ task = "none"
    /\ hook = {}
    /\ listener = FALSE
    /\ deleted = 0
    /\ stopped = FALSE
    /\ entry = DefaultEntry
    /\ uflow = NoFlow
    /\ tentry \in {NoTedeeEntry, TedeeEntry}
    /\ tflow = NoTedeeFlow
    /\ update_in_progress = NoUpdates
    /\ ev = Event("init", "", TRUE)
    /\ poll = NoPoll
    /\ http = NoHttp
    /\ res = NoRes

NextTedeeFlow ==
    \/ Tedee_flow_init
    \/ Tedee_flow_configure
    \/ Tedee_async_setup_entry
    \/ Tedee_async_unload_entry

SpecTedeeFlow == InitTedeeFlowState /\ [][NextTedeeFlow]_vars

Next == NextLM \/ NextTedee \/ NextWebhook \/ NextMigrate \/ NextFlow \/ NextServices
          \/ NextCalendar \/ NextTedeeFlow

Spec == Init /\ [][Next]_vars

\* ------------------------------------------------------------------ claims
\* The reauth flows in progress for the La Marzocco entry.
LMReauth(fl) == {f \in fl : f.entry = LM /\ f.source = "reauth"}
ConfirmFlow == [handler |-> LM, source |-> "reauth", entry |-> LM, step |-> "reauth_confirm"]
Failing == {"TedeeLocalAuthException", "TedeeDataUpdateException",
            "TedeeClientException", "TimeoutError"}

C2_AcceptedParsedThenNotified ==
    (http.served /\ http.hdr = {http.key} /\ http.body = "json_ok") =>
        /\ http.reply = [status |-> HTTP_OK, body |-> [result |-> "OK"]]
        /\ http.log = <<"parse", "notify">>

C2_Witness ==
    /\ http.served /\ http.hdr = {http.key} /\ http.body = "json_ok"
    /\ http.reply.status = HTTP_OK
    /\ Len(http.log) = 2

\* C3: an authorized POST whose body the vendor parser rejects with
\* TedeeWebhookException is answered 400 with the exception's message as result,
\* and the listeners are not notified.
C3_RejectedBody ==
    (http.served /\ http.hdr = {http.key} /\ http.body = "json_bad") =>
        /\ http.reply = [status |-> HTTP_BAD_REQUEST, body |-> [result |-> http.msg]]
        /\ Count(http.log, "notify") = 0
        /\ Count(http.log, "parse") = 1

C3_Witness ==
    /\ http.served /\ http.hdr = {http.key} /\ http.body = "json_bad"
    /\ http.msg = "unknown event"
    /\ http.reply.body.result = "unknown event"

C5_PollErrors ==
    (poll.ran /\ ev.dom = LM) =>
        /\ \A i \in DOMAIN poll.outs :
             /\ poll.outs[i] = "AuthFail" =>
                  poll.raised = "ConfigEntryAuthFailed" /\ i = Len(poll.calls)
             /\ poll.outs[i] = "RequestNotSuccessful" =>
                  poll.raised = "UpdateFailed" /\ i = Len(poll.calls)
        /\ \A i \in DOMAIN poll.calls : Count(poll.calls, poll.calls[i]) = 1
        /\ (poll.first /\ poll.outs[1] = "RequestNotSuccessful") =>
             poll.calls = <<"get_config">> /\ state[LM] = "SETUP_RETRY"

C5_Witness ==
    /\ poll.ran /\ ev = Event("poll", LM, FALSE)
    /\ poll.calls = <<"get_config", "get_firmware", "get_statistics">>
    /\ poll.outs = <<"ok", "ok", "RequestNotSuccessful">>
    /\ poll.raised = "UpdateFailed"

\* C6 as claimed: a first refresh that fails with AuthFail leaves the entry in
\* SETUP_ERROR after one get_config call with exactly one reauth flow in progress,
\* at step reauth_confirm.
C6_Original ==
    (poll.first /\ ev.dom = LM /\ poll.raised = "ConfigEntryAuthFailed") =>
        /\ state[LM] = "SETUP_ERROR"
        /\ Count(poll.calls, "get_config") = 1
        /\ LMReauth(flows) = {ConfirmFlow}

\* C6, amended: a first refresh that fails with AuthFail leaves the entry in
\* SETUP_ERROR after one get_config call with at most one reauth flow in progress
\* for the entry; if none was in progress when the setup began, there is exactly
\* one afterwards, at step reauth_confirm.
C6_ReauthStarted ==
    [][(poll'.first /\ ev'.dom = LM /\ poll'.raised = "ConfigEntryAuthFailed") =>
        /\ state'[LM] = "SETUP_ERROR"
        /\ Count(poll'.calls, "get_config") = 1
        /\ Cardinality(LMReauth(flows')) <= 1
        /\ LMReauth(flows) = {} => LMReauth(flows') = {ConfirmFlow}]_vars

C6_Witness ==
    /\ ev = Event("setup", LM, FALSE)
    /\ poll.first /\ poll.outs = <<"AuthFail">>
    /\ state[LM] = "SETUP_ERROR"
    /\ flows = {ConfirmFlow}

\* C7: in a Tedee poll a vendor call that fails with TedeeLocalAuthException
\* surfaces as ConfigEntryAuthFailed, and one that fails with
\* TedeeDataUpdateException, TedeeClientException or TimeoutError as UpdateFailed;
\* the poll then returns no lock data, calls no new-lock callback and makes no
\* further vendor call.
C7_PollErrors ==
    (poll.ran /\ ev.dom = TEDEE) =>
        \A i \in DOMAIN poll.outs :
            poll.outs[i] \in Failing =>
                /\ poll.raised = IF poll.outs[i] = "TedeeLocalAuthException"
                                 THEN "ConfigEntryAuthFailed" ELSE "UpdateFailed"
                /\ poll.returned = NoData
                /\ poll.notified = {}
                /\ i = Len(poll.calls)

C7_Witness ==
    /\ ev = Event("poll", TEDEE, FALSE)
    /\ poll.calls = <<"sync">> /\ poll.outs = <<"TedeeLocalAuthException">>
    /\ poll.raised = "ConfigEntryAuthFailed"
    /\ td.locks # {} /\ td.ncb > 0

C9_Lifecycle ==
    \A d \in Domains :
        /\ (poll.first /\ ev.dom = d) =>
             IF poll.raised = "none"
             THEN state[d] = "LOADED" /\ hass_data[d]
             ELSE state[d] # "LOADED" /\ ~hass_data[d]
        /\ (ev.op = "unload" /\ ev.dom = d) =>
             IF ev.ok
             THEN state[d] = "NOT_LOADED" /\ ~hass_data[d]
             ELSE state[d] = "FAILED_UNLOAD" /\ hass_data[d]
        /\ hass_data[d] <=> state[d] \in {"LOADED", "FAILED_UNLOAD"}

C9_Witness ==
    /\ ev = Event("unload", TEDEE, TRUE)
    /\ state[TEDEE] = "NOT_LOADED" /\ ~hass_data[TEDEE]
    /\ state[LM] = "LOADED" /\ hass_data[LM]

\* C10 as claimed: the stop event fired while the Tedee entry is loaded deletes
\* the bridge's webhook registration once and unregisters the host's webhook.
C10_Original ==
    (ev.op = "stop" /\ state[TEDEE] = "LOADED") => deleted = 1 /\ hook = {}

\* C10, amended: the stop event fired while the Tedee entry is loaded and its
\* registration task has ended with the bridge accepting the webhook deletes the
\* bridge's registration once and unregisters the host's webhook; with the task
\* not yet run, refused by the bridge or failed, nothing is deleted.
C10_CleanupOnStop ==
    ev.op = "stop" =>
        /\ (state[TEDEE] = "LOADED" /\ task = "registered") => deleted = 1 /\ hook = {}
        /\ task # "registered" => deleted = 0

C10_Witness ==
    /\ ev = Event("stop", TEDEE, TRUE)
    /\ state[TEDEE] = "LOADED" /\ task = "registered"
    /\ deleted = 1

\* C11: a migration of a version-1 entry whose serial number is in the fleet
\* leaves the entry at version 2 with exactly username and password of the old
\* data, model, name and token of the fleet's device for the entry's unique id,
\* and host and mac exactly when the old data had them; no other key survives.
C11_MigratedData ==
    (res.op = "migrate" /\ res.old.version = 1 /\ res.fleet.raised = "none"
       /\ res.old.unique_id \in res.fleet.fleet)
    => LET old == res.old.data
           device == DeviceInfo(res.old.unique_id)
       IN
       /\ res.returned /\ res.raised = "none"
       /\ entry.version = 2
       /\ \A p \in entry.data :
            \/ p[1] \in {"username", "password", "host", "mac"} /\ p \in old
            \/ p = <<"model", device.model>>
            \/ p = <<"name", device.name>>
            \/ p = <<"token", device.communication_key>>
       /\ \A k \in {"username", "password", "model", "name", "token"} : Has(entry.data, k)
       /\ \A k \in {"host", "mac"} : Has(entry.data, k) <=> Has(old, k)
       /\ [entry EXCEPT !.version = 1, !.data = old] = res.old

C11_Witness ==
    /\ res.op = "migrate" /\ res.returned /\ entry.version = 2
    /\ Has(res.old.data, CONF_MACHINE) /\ ~Has(entry.data, CONF_MACHINE)
    /\ Has(entry.data, "mac") /\ ~Has(entry.data, "host")

\* C12: when the fleet request of a migration fails with AuthFail or
\* RequestNotSuccessful, migration returns false, the entry keeps version 1 and
\* its data, it ends in MIGRATION_ERROR, and no setup runs for it, then or later.
C12_MigrationFailure ==
    /\ (res.op = "migrate" /\ res.old.version = 1
          /\ res.fleet.raised \in {"AuthFail", "RequestNotSuccessful"})
       => /\ ~res.returned /\ res.fleet_calls = 1
          /\ entry = res.old
          /\ state[LM] = "MIGRATION_ERROR"
          /\ ~poll.ran
    /\ state[LM] = "MIGRATION_ERROR"
       => entry.version = 1 /\ ~hass_data[LM] /\ lm = LMFresh /\ ev.op # "setup"

C12_Witness ==
    /\ res.op = "migrate" /\ res.fleet.raised = "AuthFail"
    /\ state[LM] = "MIGRATION_ERROR" /\ Has(entry.data, CONF_MACHINE)

\* C13: a user step whose fleet request fails with AuthFail shows the user form
\* again with errors {base: invalid_auth}, with RequestNotSuccessful
\* {base: cannot_connect}, with an empty fleet {base: no_machines}; one fleet
\* request was made, the flow stays at step user and the entry is as before.
C13_UserStepErrors ==
    (res.op = "step_user" /\ FleetOutcome(res.fleet) # "ok")
    => /\ res.result.type = "form" /\ res.result.step = "user"
       /\ res.result.errors =
            {<<"base", CASE res.fleet.raised = "AuthFail" -> "invalid_auth"
                         [] res.fleet.raised = "RequestNotSuccessful" -> "cannot_connect"
                         [] OTHER -> "no_machines">>}
       /\ res.fleet_calls = 1
       /\ uflow.active /\ uflow.step = "user"
       /\ entry = res.old

C13_Witness ==
    /\ res.op = "step_user" /\ res.fleet.raised = "RequestNotSuccessful"
    /\ res.result.type = "form" /\ uflow.fleet # {}

\* C14: a user step whose fleet request returns at least one machine yields the
\* machine_selection form, which offers the fleet's machines, whatever
\* submissions failed before in the flow.
C14_MachineSelectionForm ==
    (res.op = "step_user" /\ FleetOutcome(res.fleet) = "ok")
    => /\ res.result.type = "form" /\ res.result.step = "machine_selection"
       /\ {o.value : o \in res.result.options} = res.fleet.fleet
       /\ uflow.step = "machine_selection"

\* C15: a machine_selection step that selects a serial number of the fleet not
\* yet configured, with a host that validates, creates an entry titled with the
\* serial number whose data is exactly the credentials, the host, and model, name
\* and token of the fleet's device with that serial number.
C15_EntryCreated ==
    (res.op = "step_machine_selection" /\ res.serial \in res.fleet
       /\ ~unique_id_configured(res.old, res.serial) /\ res.host # {} /\ res.valid)
    => /\ res.result.type = "create_entry"
       /\ res.result.title = res.serial
       /\ res.result.data =
            res.config \cup res.host
              \cup {<<"model", DeviceInfo(res.serial).model>>,
                    <<"name", DeviceInfo(res.serial).name>>,
                    <<"token", DeviceInfo(res.serial).communication_key>>}
       /\ entry.exists /\ entry.unique_id = res.serial /\ entry.data = res.result.data

\* C16: a machine_selection step for a serial number that an entry already has
\* as its unique id aborts the flow with reason already_configured: the entry
\* is as before, none is created, and the connection is never validated.
C16_AlreadyConfigured ==
    (res.op = "step_machine_selection" /\ unique_id_configured(res.old, res.serial))
    => /\ res.result.type = "abort" /\ res.result.reason = "already_configured"
       /\ entry = res.old
       /\ res.validate_calls = 0 /\ res.fleet_calls = 0
       /\ ~uflow.active

C16_Witness ==
    /\ res.op = "step_machine_selection" /\ res.result.type = "abort"
    /\ res.host # {} /\ res.serial \in res.fleet /\ entry.exists

\* C17: a machine_selection step with a host whose validation returns false
\* shows the machine_selection form again with errors {host: cannot_connect},
\* creates no entry and requests no fleet; with a validation that returns true
\* the same submission creates the entry.
C17_InvalidHost ==
    (res.op = "step_machine_selection" /\ res.serial \in res.fleet
       /\ ~unique_id_configured(res.old, res.serial) /\ res.host # {})
    => IF res.valid
       THEN res.result.type = "create_entry" /\ entry.exists
       ELSE /\ res.result.type = "form" /\ res.result.step = "machine_selection"
            /\ res.result.errors = {<<"host", "cannot_connect">>}
            /\ res.validate_calls = 1 /\ res.fleet_calls = 0
            /\ entry = res.old
            /\ uflow.active /\ uflow.step = "machine_selection"

\* The models and keys each service supports.
Supported(service, model, key) ==
    CASE service = "set_dose" -> model = "GS3_AV"
      [] service = "set_dose_hot_water" -> model \in {"GS3_AV", "GS3_MP"}
      [] service \in {"set_prebrew_times", "set_preinfusion_time"} ->
           model # "GS3_MP" /\ (model \in {"LINEA_MINI", "LINEA_MICRA"} => key = 1)
      [] OTHER -> TRUE

ValidCall ==
    /\ res.entry_id = LM_ENTRY_ID /\ entry.exists
    /\ state[LM] = "LOADED"
    /\ Supported(res.service, Get(entry.data, "model"), res.key)

C19_ServiceCallError ==
    (res.op = "service" /\ ValidCall
       /\ res.outcome \in {"AuthFail", "RequestNotSuccessful", "TimeoutError"})
    => /\ res.raised = "HomeAssistantError"
       /\ res.message = <<"Service call encountered error: ", res.msg>>
       /\ res.calls = <<ServiceMethod(res.service)>>

C19_Witness ==
    /\ res.op = "service" /\ res.service = "set_auto_on_off_enable"
    /\ res.outcome = "RequestNotSuccessful" /\ res.msg = "BadRequest"
    /\ res.raised = "HomeAssistantError"

\* C20: setting a keyed number (prebrew on or off time, preinfusion time) while
\* its feature, prebrewing or preinfusion, is not enabled raises HomeAssistantError
\* 'Not possible to set: <reason>', sends nothing to the machine and writes no state.
C20_NotSettable ==
    (res.op = "number_set"
       /\ ~(IF res.description = "preinfusion_off" THEN res.status.enable_preinfusion
            ELSE res.status.enable_prebrewing))
    => /\ res.raised = "HomeAssistantError"
       /\ res.message = <<"Not possible to set: ",
                          IF res.description = "preinfusion_off"
                          THEN "Preinfusion is not enabled"
                          ELSE "Prebrewing is not enabled">>
       /\ res.calls = <<>>
       /\ ~res.written

C20_Witness ==
    /\ res.op = "number_set" /\ res.description = "preinfusion_off"
    /\ ~res.status.enable_preinfusion /\ res.status.enable_prebrewing
    /\ res.raised = "HomeAssistantError" /\ Get(entry.data, "model") = "LINEA_MICRA"

\* C21: a Tedee poll issues at most one of get_locks and sync, and exactly one
\* when it succeeds; get_locks on the first poll and afterwards only once the
\* full-update deadline has passed, sync otherwise; the deadline moves, to 3600
\* seconds after the poll, only when get_locks succeeded, so that after a failed
\* full update it is still due.
C21_PollSchedule ==
    [][(poll'.ran /\ ev'.dom = TEDEE) =>
         LET due == poll'.first \/ td.next_full <= now
             locks == Count(poll'.calls, "get_locks")
             sync == Count(poll'.calls, "sync")
             full_ok == locks = 1 /\ poll'.raised = "none"
         IN /\ locks + sync <= 1
            /\ poll'.raised = "none" => locks + sync = 1
            /\ locks = 1 => due
            /\ sync = 1 => ~due
            /\ full_ok => td'.next_full = now + FULL_UPDATE_INTERVAL_SECONDS
            /\ (~poll'.first /\ ~full_ok) => td'.next_full = td.next_full
            /\ (~poll'.first /\ locks = 1 /\ ~full_ok) => td'.next_full <= now'
      ]_vars

C21_Witness ==
    /\ ev = Event("poll", TEDEE, TRUE)
    /\ ~poll.first
    /\ poll.calls = <<"get_locks">>
    /\ now >= FULL_UPDATE_INTERVAL_SECONDS
    /\ td.next_full = now + FULL_UPDATE_INTERVAL_SECONDS

\* C22: the calendar's `event` is the next upcoming event: of the on/off events
\* of today and the following 6 days, the earliest whose end is still in the
\* future; None when auto on/off is globally disabled or no day of the window is
\* enabled.
C22_NextEvent ==
    res.op = "calendar_event" =>
        LET day(d) == res.schedule[(res.today + d) % DAYS_PER_WEEK]
            end(d) == DateTime(d, split_time(day(d).off)[1], split_time(day(d).off)[2])
            start(d) == DateTime(d, split_time(day(d).on)[1], split_time(day(d).on)[2])
            upcoming == {d \in 0 .. CALENDAR_DAYS_AHEAD :
                            /\ res.global_auto = "Enabled"
                            /\ day(d).enable = "Enabled"
                            /\ Minutes(end(d)) > Minutes(res.time)}
            first == CHOOSE d \in upcoming : \A x \in upcoming : d <= x
        IN res.result = IF upcoming = {} THEN None
                        ELSE [start |-> start(first), end |-> end(first)]

\* C23: a lock that appears in the client's lock set after the known locks were
\* first recorded is reported to every registered new-lock callback exactly once:
\* a poll does not report a lock that the lock set already held before it, and a
\* lock appearing after polls that returned no locks is reported.
C23_NewLockOnce ==
    [][(ev'.op = "poll" /\ ev'.dom = TEDEE /\ ev'.ok) =>
         /\ \A pr \in poll'.notified : pr[1] \notin td.locks
         /\ \A pr \in poll'.notified : \A k \in 1 .. td.ncb : <<pr[1], k>> \in poll'.notified
         /\ td.current = {} =>
              \A l \in td'.locks, k \in 1 .. td.ncb : <<l, k>> \in poll'.notified
      ]_vars

\* C24: a Tedee reauth flow given a local access token that the bridge accepts
\* ends with abort reason reauth_successful, has replaced only the token in the
\* entry's data, validated it against the entry's stored host and reloaded the
\* entry; given a rejected token the entry's data is unchanged.
C24_TedeeReauth ==
    (res.op = "tedee_configure" /\ res.source = "reauth" /\ res.valid
       /\ InputKeys(res.input) = {CONF_LOCAL_ACCESS_TOKEN}) =>
        IF res.outcome = "ok"
        THEN /\ res.result = Abort("reauth_successful")
             /\ tentry.data = Merge(res.old.data, res.input)
             /\ res.host = Get(res.old.data, CONF_HOST)
             /\ res.reloaded
        ELSE tentry.data = res.old.data

\* C25: in a Tedee user flow, selecting the local API leads on to the host and
\* token, and a host and token that the bridge accepts, for a serial that is not
\* configured, create an entry whose data holds them; selecting neither API shows
\* the user form again with no_option_selected and creates nothing.
C25_TedeeUserFlow ==
    (res.op = "tedee_configure" /\ res.source = "user" /\ res.valid) =>
        /\ truthy(res.input, CONF_USE_LOCAL_API) /\ ~truthy(res.input, CONF_USE_CLOUD_API) =>
             \/ res.result.type = "form" /\ res.result.errors = {}
             \/ res.result.type = "create_entry"
        /\ (res.outcome = "ok" /\ res.calls > 0 /\ ~unique_id_configured(res.old, res.serial)
              /\ ~truthy(res.input, CONF_USE_CLOUD_API)) =>
             /\ res.result.type = "create_entry"
             /\ \A k \in {CONF_HOST, CONF_LOCAL_ACCESS_TOKEN} :
                  Has(res.result.data, k) /\ Get(res.result.data, k) = Get(res.input, k)
        /\ (~truthy(res.input, CONF_USE_LOCAL_API) /\ ~truthy(res.input, CONF_USE_CLOUD_API)) =>
             /\ res.result = Form("user", {<<"base", "no_option_selected">>}, UserSchema)
             /\ tentry = res.old

\* C26: at most one handler is registered for the entry's webhook id, and it is
\* the one bound to the coordinator and secret of the currently loaded entry;
\* after an unload no handler remains registered, so that a renewed setup can
\* register its own.
C26_WebhookLifecycle ==
    /\ Cardinality(hook) <= 1
    /\ \A h \in hook : h.current
    /\ state[TEDEE] = "NOT_LOADED" => hook = {}
    /\ task # "failed"

\* The coordinator a La Marzocco poll started from (a setup makes a new one), and
\* whether a request of the poll was made and succeeded.
PollFrom == IF poll'.first THEN LMFresh ELSE lm
Requested(name) == Count(poll'.calls, name) = 1
Succeeded(name) == \E i \in DOMAIN poll'.calls : poll'.calls[i] = name /\ poll'.outs[i] = "ok"
Overdue(last, interval) == last = {} \/ \E x \in last : now - x > interval
InOrder(calls) ==
    \A i, j \in DOMAIN calls :
        i < j => <<calls[i], calls[j]>> \in {<<"get_config", "get_firmware">>,
                                             <<"get_config", "get_statistics">>,
                                             <<"get_firmware", "get_statistics">>}

\* C27 as claimed: every La Marzocco poll requests get_config first, get_firmware
\* if and only if no firmware request succeeded before or more than 3600 seconds
\* have passed since the last that did, get_statistics likewise with 300 seconds,
\* in the order config, firmware, statistics, and advances a timestamp only after
\* its own request succeeded.
C27_Original ==
    [][(poll'.ran /\ ev'.dom = LM) =>
         /\ poll'.calls[1] = "get_config"
         /\ Requested("get_firmware") <=> Overdue(PollFrom.fw, FIRMWARE_UPDATE_INTERVAL)
         /\ Requested("get_statistics") <=> Overdue(PollFrom.stats, STATISTICS_UPDATE_INTERVAL)
         /\ InOrder(poll'.calls)
         /\ lm'.fw # PollFrom.fw => Succeeded("get_firmware") /\ lm'.fw = {now}
         /\ lm'.stats # PollFrom.stats => Succeeded("get_statistics") /\ lm'.stats = {now}
      ]_vars

\* C27, amended: every La Marzocco poll requests get_config first; get_firmware is
\* requested if and only if get_config succeeded and no firmware request succeeded
\* before or more than 3600 seconds have passed since the last that did;
\* get_statistics if and only if every earlier request of the poll succeeded and
\* the same holds for it with 300 seconds; the order is config, firmware,
\* statistics, and a timestamp advances only after its own request succeeded.
C27_PollSchedule ==
    [][(poll'.ran /\ ev'.dom = LM) =>
         /\ poll'.calls[1] = "get_config"
         /\ Requested("get_firmware") <=>
              /\ Succeeded("get_config")
              /\ Overdue(PollFrom.fw, FIRMWARE_UPDATE_INTERVAL)
         /\ Requested("get_statistics") <=>
              /\ Succeeded("get_config")
              /\ Requested("get_firmware") => Succeeded("get_firmware")
              /\ Overdue(PollFrom.stats, STATISTICS_UPDATE_INTERVAL)
         /\ InOrder(poll'.calls)
         /\ lm'.fw # PollFrom.fw => Succeeded("get_firmware") /\ lm'.fw = {now}
         /\ lm'.stats # PollFrom.stats => Succeeded("get_statistics") /\ lm'.stats = {now}
      ]_vars

C27_Witness ==
    /\ ev = Event("poll", LM, TRUE)
    /\ poll.calls = <<"get_config", "get_statistics">>
    /\ now = STATISTICS_UPDATE_INTERVAL + 1
    /\ lm = [fw |-> {0}, stats |-> {now}]

\* C28: `in_progress` of a La Marzocco update entity is true only while an install
\* is executing: once async_install has finished it is false again, whether the
\* vendor's update reported success or failure, and a failure is raised as
\* HomeAssistantError 'Update failed'.
C28_InProgress ==
    /\ \A k \in UpdateKeys : ~update_in_progress[k]
    /\ res.op = "install" =>
         /\ res.written[1] = TRUE
         /\ res.success <=> res.raised = "none"
         /\ ~res.success => res.raised = "HomeAssistantError" /\ res.message = "Update failed"

\* C29: a Tedee lock command gives the entity its transitional state (LOCKING for
\* lock, UNLOCKING for unlock and open) and writes it before the vendor call; a
\* failure of the vendor call or of the refresh request is raised as
\* HomeAssistantError, and after a failure the entity is not left in that
\* transitional state.
C29_LockCommands ==
    res.op = "lock_command" =>
        /\ res.log[1] = "async_write_ha_state" /\ res.log[2] = res.cmd
        /\ (res.outcome # "ok" \/ res.refresh # "ok") <=> res.raised = "HomeAssistantError"
        /\ res.raised # "none" => res.state \notin {"LOCKING", "UNLOCKING"}

====
